---- MODULE Spec2Model ----
(***************************************************************************)
(* Day-rollover and progress tracking of the Elevate1401 tracker           *)
(* (src/App.tsx).  The React component App is modelled as a state machine: *)
(* the useState cells are the in-memory variables, the localStorage keys   *)
(* are the elevate_* variables, and every effect or event handler is one   *)
(* action.  The AI persona, the theme, the voices and the auto-speech      *)
(* preference are not part of this model.  A handler that runs behind the  *)
(* confirmation modal is modelled by its confirmed run.                    *)
(***************************************************************************)
EXTENDS Integers, Sequences, FiniteSets, TLC

VARIABLES
  now,                  \* the clock read by Date.now() and new Date()
  pc,                   \* "off", "mounted", "committed", "running", "crashed"
  remounts,             \* how often the mount effect was re-run by a development remount
  elevate_tasks,        \* localStorage 'elevate_tasks'
  elevate_history,      \* localStorage 'elevate_history'
  elevate_last_date,    \* localStorage 'elevate_last_date'
  elevate_user,         \* localStorage 'elevate_user'
  malformed,            \* the localStorage keys whose stored text JSON.parse rejects;
                        \* the elevate_* variable of such a key holds the empty value
  tasks,                \* useState<Task[]>
  history,              \* useState<DayLog[]>
  lastActiveDate,       \* useState<string>
  userProfile,          \* useState<UserProfile | null>
  activeTaskForFocus,   \* useState<Task | null>: <<>> or <<task>>
  rewardState,          \* the reward modal
  messages,             \* useState<ChatMessage[]>
  isTyping,             \* useState(false): the typing indicator
  inFlight,             \* the calls of the AI service that have not settled, each
                        \* with the evaluator's summary of the render that sent it
  lastOp,               \* the operation that made the last step, with the tasks, the history,
                        \* the xp and the stored date it started from and the task it was given
  steps                 \* the number of steps taken so far

vars == <<now, pc, remounts, elevate_tasks, elevate_history, elevate_last_date,
          elevate_user, malformed, tasks, history, lastActiveDate, userProfile,
          activeTaskForFocus, rewardState, messages, isTyping, inFlight,
          lastOp, steps>>

storage == <<elevate_tasks, elevate_history, elevate_last_date, elevate_user,
             malformed>>

chat == <<messages, isTyping, inFlight>>

memory == <<tasks, history, lastActiveDate, userProfile, activeTaskForFocus,
            rewardState, chat>>

----------------------------------------------------------------------------
(* Bounds of the model *)

MaxNow == 3          \* the clock stops advancing here
TicksPerDay == 2     \* clock ticks in one calendar day
MaxTasks == 2        \* addTask is not taken beyond this many tasks
MaxHistory == 2      \* no archive is taken beyond this many DayLogs
MaxXp == 200         \* no award is taken beyond this much xp
MaxSteps == 8        \* the behaviours explored take at most this many steps
MaxSessions == 1     \* no focus session is started on a task holding this many
MaxSends == 1        \* no message is sent to a transcript holding this many of the user

----------------------------------------------------------------------------
(* Values *)

\* the falsy date: localStorage.getItem() === null, and useState('')
NoDate == 0

\* userProfile === null
NoProfile == [null |-> TRUE]

\* the keys the mount effect hands to JSON.parse
ParsedKeys ==
  {"elevate_user", "elevate_ai", "elevate_auto_speech", "elevate_tasks",
   "elevate_history"}

\* the keys parsed inside the try block of the mount effect
GuardedKeys == {"elevate_tasks"}

InputTexts == {"hi", " "}
Outcomes == {"ok", "failed"}
Titles == {"run"}
\* the texts of the target field, one character per element.  The field is of
\* type number with min = 1, which keeps no text from being typed; the empty
\* text, which parseInt turns into NaN, is not among these inputs.
TargetTexts == { <<"2">>, <<"0">> }

DigitValue(c) ==
  CASE c = "0" -> 0 [] c = "1" -> 1 [] c = "2" -> 2 [] c = "3" -> 3 [] c = "4" -> 4
    [] c = "5" -> 5 [] c = "6" -> 6 [] c = "7" -> 7 [] c = "8" -> 8 [] c = "9" -> 9

RECURSIVE DigitsValue(_, _)
DigitsValue(acc, cs) ==
  IF cs = <<>> THEN acc ELSE DigitsValue(10 * acc + DigitValue(Head(cs)), Tail(cs))

\* parseInt(e.target.value) of a text of digits with an optional sign
parseInt(text) ==
  IF Head(text) = "-" THEN 0 - DigitsValue(0, Tail(text)) ELSE DigitsValue(0, text)

\* the values setNewTaskTarget is handed
Targets == {parseInt(text) : text \in TargetTexts}
TaskTypes == {"count", "duration"}

\* the type and the target of the creation form when ADD is pressed
NewTaskForms ==
  { form \in TaskTypes \X Targets : form[2] > 0 \/ form[1] = "count" }

Durations == {20000, 300000}
Currents == {0, 2}

\* new Date().toISOString().split('T')[0]: the calendar day of the clock
TodayStr == 1 + (now \div TicksPerDay)

Min(a, b) == IF a < b THEN a ELSE b

RECURSIVE SeqSum(_)
SeqSum(s) == IF s = <<>> THEN 0 ELSE Head(s) + SeqSum(Tail(s))

RECURSIVE SeqProd(_)
SeqProd(s) == IF s = <<>> THEN 1 ELSE Head(s) * SeqProd(Tail(s))

----------------------------------------------------------------------------
(* Task, Session, DayLog *)

Task(id, title, type, target, unit, current, sessions, updatedAt) ==
  [id |-> id, title |-> title, type |-> type, target |-> target, unit |-> unit,
   current |-> current, sessions |-> sessions, updatedAt |-> updatedAt]

\* JSON.parse(JSON.stringify(tasks)): a structural copy, field by field.  Every
\* field of a task of this model is a finite number, a string or an array of
\* session objects, which the round trip keeps.
JsonSessions(ss) ==
  [k \in 1..Len(ss) |-> [startTs |-> ss[k].startTs, endTs |-> ss[k].endTs,
                         durationMs |-> ss[k].durationMs]]

JsonTasks(ts) ==
  [i \in 1..Len(ts) |->
     Task(ts[i].id, ts[i].title, ts[i].type, ts[i].target, ts[i].unit,
          ts[i].current, JsonSessions(ts[i].sessions), ts[i].updatedAt)]

JsonHistory(h) ==
  [i \in 1..Len(h) |->
     [date |-> h[i].date, tasks |-> JsonTasks(h[i].tasks),
      stats |-> [completionRate |-> h[i].stats.completionRate,
                 totalFocusTimeMs |-> h[i].stats.totalFocusTimeMs]]]

----------------------------------------------------------------------------
(* runEvaluator (utils/tracker): completionRate and streak *)

\* 100 * min(current/target, 1) of every task over the common denominator den;
\* a task without a positive target counts as complete
RatioNumerators(ts, den) ==
  [i \in 1..Len(ts) |->
     IF ts[i].target <= 0 THEN 100 * den
     ELSE (100 * Min(ts[i].current, ts[i].target) * den) \div ts[i].target]

PositiveTargets(ts) ==
  [i \in 1..Len(ts) |-> IF ts[i].target <= 0 THEN 1 ELSE ts[i].target]

\* the mean of the clamped ratios, rounded to the nearest integer (half up)
CompletionRate(ts) ==
  IF Len(ts) = 0 THEN 0
  ELSE LET den == SeqProd(PositiveTargets(ts))
           num == SeqSum(RatioNumerators(ts, den))
       IN  (2 * num + den * Len(ts)) \div (2 * den * Len(ts))

StreakThreshold == 50

\* the number of consecutive most recent DayLogs at or above the threshold
RECURSIVE Streak(_)
Streak(h) ==
  IF Len(h) = 0 THEN 0
  ELSE IF h[Len(h)].stats.completionRate >= StreakThreshold
       THEN 1 + Streak(SubSeq(h, 1, Len(h) - 1))
       ELSE 0

runEvaluator(ts, h) ==
  [completionRate |-> CompletionRate(ts), streak |-> Streak(h)]

----------------------------------------------------------------------------
(* Archive and Reset *)

\* hasProgress taking every task list as one with progress
hasProgressAlways(ts) == Len(ts) >= 0

\* const hasProgress = currentTasks.some(t => t.current > 0)
hasProgress(ts) == \E i \in 1..Len(ts) : ts[i].current > 0

\* const log: DayLog = { date, tasks, stats: { completionRate, totalFocusTimeMs } }
DayLog(date, snapshot, completionRate, totalFocusTimeMs) ==
  [date |-> date,
   tasks |-> snapshot,
   stats |-> [completionRate |-> completionRate,
              totalFocusTimeMs |-> totalFocusTimeMs]]

\* rolloverLog dating the log with today instead of the stored date
rolloverLogToday(savedLastDate, currentTasks, currentHistory) ==
  DayLog(TodayStr, JsonTasks(currentTasks),
         runEvaluator(currentTasks, currentHistory).completionRate, 0)

\* the log the mount effect archives: dated with the stored last-active-date
rolloverLog(savedLastDate, currentTasks, currentHistory) ==
  DayLog(savedLastDate, JsonTasks(currentTasks),
         runEvaluator(currentTasks, currentHistory).completionRate, 0)

\* the history the mount effect sets on a new day
rolloverHistory(savedLastDate, currentTasks, currentHistory) ==
  IF hasProgress(currentTasks)
  THEN Append(currentHistory, rolloverLog(savedLastDate, currentTasks, currentHistory))
  ELSE currentHistory

\* the log performEndDay archives: dated today
endDayLog(ts, h) ==
  DayLog(TodayStr, JsonTasks(ts), runEvaluator(ts, h).completionRate, 0)

\* endDayHistory skipping the archive of a day without progress
endDayHistoryIfProgress(ts, h) ==
  IF hasProgress(ts) THEN Append(h, endDayLog(ts, h)) ELSE h

\* const newHistory = [...history, log]
endDayHistory(ts, h) == Append(h, endDayLog(ts, h))

\* resetTasks building the reset task without its unit
resetTasksNoUnit(ts, t) ==
  [i \in 1..Len(ts) |->
     [ts[i] EXCEPT !.current = 0, !.sessions = <<>>, !.updatedAt = t, !.unit = ""]]

\* tasks.map(t => ({...t, current: 0, sessions: [], updatedAt: Date.now()}))
resetTasks(ts, t) ==
  [i \in 1..Len(ts) |->
     [ts[i] EXCEPT !.current = 0, !.sessions = <<>>, !.updatedAt = t]]

----------------------------------------------------------------------------
(* Values of the state cells *)

Profile(xp) == [onboarded |-> TRUE, xp |-> xp]

\* userProfile.xp || 0
XpOf(p) == IF p = NoProfile THEN 0 ELSE p.xp

ClosedReward == [isOpen |-> FALSE, streak |-> 0]

\* a ChatMessage: its role, what its text says, and the xp and the evaluator's
\* summary the text quotes
ChatMessage(role, kind, xp, summary) ==
  [role |-> role, kind |-> kind, xp |-> xp, summary |-> summary]

\* metrics.summary: a text that completionRate and streak determine
Summary(metrics) == <<metrics.completionRate, metrics.streak>>

UserMessages(ms) == SelectSeq(ms, LAMBDA m : m.role = "user")

Op(name, ts, h, xp, given) ==
  [op |-> name, tasks |-> ts, history |-> h, xp |-> xp, task |-> given,
   lastDate |-> elevate_last_date]

\* a step that is no operation on tasks, history or profile
Other(name) ==
  [op |-> name, tasks |-> <<>>, history |-> <<>>, xp |-> 0, task |-> <<>>,
   lastDate |-> NoDate]

\* stored task lists a first process start may find; their tasks were added
\* before the clock of the model starts
InitTaskLists ==
  { <<>>,
    << Task(0 - 1, "run", "count", 2, "reps", 1, <<>>, 0 - 1) >>,
    << Task(0 - 1, "run", "count", 2, "reps", 0,
            << [startTs |-> 0 - 300000, endTs |-> 0, durationMs |-> 300000] >>, 0 - 1) >> }

Init ==
  /\ now = 0
  /\ pc = "off"
  /\ remounts = 0
  /\ malformed \in {{}} \cup {{k} : k \in ParsedKeys}
  /\ elevate_tasks \in IF malformed = {} THEN InitTaskLists ELSE {<<>>}
  /\ elevate_history = <<>>
  /\ elevate_last_date = NoDate
  /\ elevate_user = NoProfile
  /\ tasks = <<>>
  /\ history = <<>>
  /\ lastActiveDate = NoDate
  /\ userProfile = NoProfile
  /\ activeTaskForFocus = <<>>
  /\ rewardState = ClosedReward
  /\ messages = <<>>
  /\ isTyping = FALSE
  /\ inFlight = <<>>
  /\ lastOp = Other("init")
  /\ steps = 0

\* one more step of the behaviour
Step == steps < MaxSteps /\ steps' = steps + 1

----------------------------------------------------------------------------
(* Process start: the mount effect, the persistence effect of the first    *)
(* commit, and the re-render that applies the queued state updates.  The   *)
(* in-memory variables hold the latest queued value of each state cell.    *)

\* NewDay without the test that a date is stored
NewDayUnguarded(savedLastDate) == savedLastDate # TodayStr

\* savedLastDate && savedLastDate !== todayStr
NewDay(savedLastDate) == savedLastDate # NoDate /\ savedLastDate # TodayStr

\* !savedLastDate
FirstRun(savedLastDate) == savedLastDate = NoDate

\* JSON.parse throws out of the mount effect: a key parsed outside the try
\* block holds text that does not parse
MountThrows == malformed \ GuardedKeys # {}

\* the body of the mount effect
MountEffect ==
  LET savedLastDate == elevate_last_date
      currentTasks == IF "elevate_tasks" \in malformed THEN <<>>
                      ELSE JsonTasks(elevate_tasks)
      currentHistory == JsonHistory(elevate_history)
      newHist == rolloverHistory(savedLastDate, currentTasks, currentHistory)
      greeted == IF elevate_user # NoProfile
                 THEN << ChatMessage("model", "init", 0, <<>>) >>
                 ELSE messages
  IN
  /\ messages' = IF NewDay(savedLastDate)
                 THEN Append(greeted, ChatMessage("system", "newDay", 0, <<>>))
                 ELSE greeted
  /\ userProfile' = IF elevate_user # NoProfile THEN elevate_user ELSE userProfile
  /\ IF NewDay(savedLastDate)
     THEN /\ IF hasProgress(currentTasks)
             THEN /\ Len(currentHistory) < MaxHistory
                  /\ history' = newHist
                  /\ elevate_history' = JsonHistory(newHist)
             ELSE /\ history' = currentHistory
                  /\ UNCHANGED elevate_history
          /\ tasks' = resetTasks(currentTasks, now)
          /\ elevate_tasks' = JsonTasks(resetTasks(currentTasks, now))
          /\ malformed' = malformed \ {"elevate_tasks"}
          /\ lastActiveDate' = TodayStr
          /\ elevate_last_date' = TodayStr
     ELSE /\ tasks' = currentTasks
          /\ history' = currentHistory
          /\ UNCHANGED <<elevate_tasks, elevate_history, malformed>>
          /\ IF FirstRun(savedLastDate)
             THEN /\ lastActiveDate' = TodayStr
                  /\ elevate_last_date' = TodayStr
             ELSE /\ lastActiveDate' = savedLastDate
                  /\ UNCHANGED elevate_last_date
  /\ UNCHANGED <<now, elevate_user, activeTaskForFocus, rewardState, isTyping,
                 inFlight>>

\* a process start runs the mount effect
ProcessStart ==
  /\ pc = "off"
  /\ ~MountThrows
  /\ MountEffect
  /\ pc' = "mounted"
  /\ remounts' = 0
  /\ lastOp' = Op("mount", elevate_tasks, elevate_history, XpOf(elevate_user), <<>>)
  /\ Step

\* a process start whose mount effect throws: no later effect of the component
\* runs, and the error, which no boundary catches, takes the component tree down
ProcessStartThrows ==
  /\ pc = "off"
  /\ MountThrows
  /\ pc' = "crashed"
  /\ lastOp' = Other("mountThrows")
  /\ Step
  /\ UNCHANGED <<now, remounts, storage, memory>>

\* a development build unmounts and remounts the component once after the first
\* commit, which runs the mount effect a second time
StrictRemount ==
  /\ pc = "committed"
  /\ remounts = 0
  /\ MountEffect
  /\ pc' = "mounted"
  /\ remounts' = 1
  /\ lastOp' = Op("remount", elevate_tasks, elevate_history, XpOf(elevate_user), <<>>)
  /\ Step

\* the persistence effect, writing the values v of the render it belongs to
PersistenceEffect(vUser, vTasks, vHistory) ==
  /\ elevate_user' = IF vUser # NoProfile THEN vUser ELSE elevate_user
  /\ elevate_tasks' = JsonTasks(vTasks)
  /\ elevate_history' = JsonHistory(vHistory)
  /\ elevate_last_date' = TodayStr
  /\ malformed' = IF vUser # NoProfile THEN {} ELSE malformed \cap {"elevate_user"}

\* the persistence effect of the first commit sees the initial render's state
PersistInitial ==
  /\ pc = "mounted"
  /\ PersistenceEffect(NoProfile, <<>>, <<>>)
  /\ pc' = "committed"
  /\ lastOp' = Other("persistInitial")
  /\ Step
  /\ UNCHANGED <<now, remounts, memory>>

\* the re-render with the loaded state, and its persistence effect
Rerender ==
  /\ pc = "committed"
  /\ PersistenceEffect(userProfile, tasks, history)
  /\ pc' = "running"
  /\ lastOp' = Other("rerender")
  /\ Step
  /\ UNCHANGED <<now, remounts, memory>>

\* the process stops (tab closed, crash): the in-memory state is gone
ProcessStop ==
  /\ pc # "off"
  /\ pc' = "off"
  /\ remounts' = 0
  /\ tasks' = <<>>
  /\ history' = <<>>
  /\ lastActiveDate' = NoDate
  /\ userProfile' = NoProfile
  /\ activeTaskForFocus' = <<>>
  /\ rewardState' = ClosedReward
  /\ messages' = <<>>
  /\ isTyping' = FALSE
  /\ inFlight' = <<>>
  /\ lastOp' = Other("stop")
  /\ Step
  /\ UNCHANGED <<now, storage>>

\* time passes while the process is off or idle
Tick ==
  /\ pc \in {"off", "running"}
  /\ now < MaxNow
  /\ now' = now + 1
  /\ lastOp' = Other("tick")
  /\ Step
  /\ UNCHANGED <<pc, remounts, storage, memory>>

----------------------------------------------------------------------------
(* Event handlers.  The dashboard is rendered for an onboarded profile     *)
(* only, and the confirmation modal takes the input while it is open.      *)
(* Every handler that changes a dependency of the persistence effect is    *)
(* followed by that effect, which is part of the handler's action.         *)

Dashboard ==
  /\ pc = "running"
  /\ userProfile # NoProfile
  /\ userProfile.onboarded

Persist ==
  PersistenceEffect(userProfile', tasks', history')

\* <Onboarding onComplete={setUserProfile} />
Onboard ==
  /\ pc = "running"
  /\ userProfile = NoProfile
  /\ userProfile' = Profile(0)
  /\ lastOp' = Other("onboard")
  /\ Step
  /\ UNCHANGED <<now, pc, remounts, tasks, history, lastActiveDate,
                 activeTaskForFocus, rewardState, chat>>
  /\ Persist

\* newTaskTitle.trim() is empty
Blank(title) == title \in {"", " "}

\* newTask starting the task with one unit of progress
newTaskWithProgress(title, type, target, newTaskUnit) ==
  Task(now, title, type, target, IF type = "duration" THEN "min" ELSE newTaskUnit,
       1, <<>>, now)

\* const newTask: Task = { id: Date.now().toString(), ..., current: 0, sessions: [] }
newTask(title, type, target, newTaskUnit) ==
  Task(now, title, type, target, IF type = "duration" THEN "min" ELSE newTaskUnit,
       0, <<>>, now)

AddTaskXp == 10

addTask(title, type, target) ==
  /\ Dashboard
  /\ lastOp' = Op(IF Blank(title) THEN "addTaskBlank" ELSE "addTask", tasks, history,
                  XpOf(userProfile), <<>>)
  /\ Step
  /\ IF Blank(title)
     THEN UNCHANGED <<storage, memory>>
     ELSE /\ Len(tasks) < MaxTasks
          /\ XpOf(userProfile) + AddTaskXp <= MaxXp
          /\ tasks' = Append(tasks, newTask(title, type, target, "reps"))
          /\ userProfile' = [userProfile EXCEPT !.xp = XpOf(userProfile) + AddTaskXp]
          /\ UNCHANGED <<history, lastActiveDate,
                         activeTaskForFocus, rewardState, chat>>
          /\ Persist
  /\ UNCHANGED <<now, pc, remounts>>

\* tasks.find(t => t.id === id): the index of the first task with the id, or 0
FindIndex(ts, id) ==
  IF \E i \in 1..Len(ts) : ts[i].id = id
  THEN CHOOSE i \in 1..Len(ts) :
         /\ ts[i].id = id
         /\ \A j \in 1..(i - 1) : ts[j].id # id
  ELSE 0

\* completedNow without the test that the stored task was below its target
completedNowAnyUpdate(ts, updatedTask) ==
  /\ FindIndex(ts, updatedTask.id) # 0
  /\ updatedTask.current >= updatedTask.target

completedNow(ts, updatedTask) ==
  LET k == FindIndex(ts, updatedTask.id)
  IN  /\ k # 0
      /\ ts[k].current < ts[k].target
      /\ updatedTask.current >= updatedTask.target

\* tasks.map(t => t.id === updatedTask.id ? updatedTask : t)
replaceTask(ts, updatedTask) ==
  [i \in 1..Len(ts) |-> IF ts[i].id = updatedTask.id THEN updatedTask ELSE ts[i]]

CompletionXp == 50

\* updateTaskProfile taking the award back when a completed task drops below target
updateTaskProfileRevoke(ts, p, updatedTask) ==
  LET k == FindIndex(ts, updatedTask.id)
  IN  IF p = NoProfile \/ k = 0 THEN p
      ELSE IF ts[k].current < ts[k].target /\ updatedTask.current >= updatedTask.target
      THEN [p EXCEPT !.xp = XpOf(p) + CompletionXp]
      ELSE IF ts[k].current >= ts[k].target /\ updatedTask.current < updatedTask.target
      THEN [p EXCEPT !.xp = XpOf(p) - CompletionXp]
      ELSE p

\* the profile updateTask leaves queued
updateTaskProfile(ts, p, updatedTask) ==
  IF completedNow(ts, updatedTask) /\ p # NoProfile
  THEN [p EXCEPT !.xp = XpOf(p) + CompletionXp]
  ELSE p

\* <TaskItem onUpdate={updateTask} />: a progress update of the i-th task
updateTask(i, c) ==
  LET updatedTask == [tasks[i] EXCEPT !.current = c]
  IN  /\ Dashboard
      /\ i \in 1..Len(tasks)
      /\ XpOf(updateTaskProfile(tasks, userProfile, updatedTask)) <= MaxXp
      /\ tasks' = replaceTask(tasks, updatedTask)
      /\ userProfile' = updateTaskProfile(tasks, userProfile, updatedTask)
      /\ lastOp' = Op("updateTask", tasks, history, XpOf(userProfile), <<updatedTask>>)
      /\ Step
      /\ UNCHANGED <<now, pc, remounts, history, lastActiveDate,
                     activeTaskForFocus, rewardState, chat>>
      /\ Persist

\* onStartSession={(t) => setActiveTaskForFocus(t)}
StartSession(i) ==
  /\ Dashboard
  /\ i \in 1..Len(tasks)
  /\ Len(tasks[i].sessions) < MaxSessions
  /\ activeTaskForFocus' = <<tasks[i]>>
  /\ lastOp' = Other("startSession")
  /\ Step
  /\ UNCHANGED <<now, pc, remounts, storage, tasks, history, lastActiveDate,
                 userProfile, rewardState, chat>>

\* Math.round(durationMs / 60000)
durationMin(durationMs) == (durationMs + 30000) \div 60000

FocusXpPerMinute == 2

\* the task handleFocusSessionEnd hands to updateTask
focusUpdated(t, durationMs) ==
  [t EXCEPT
     !.current = IF t.type = "duration" THEN t.current + durationMin(durationMs)
                 ELSE t.current,
     !.sessions = Append(t.sessions, [startTs |-> now - durationMs, endTs |-> now,
                                      durationMs |-> durationMs])]

\* the profile handleFocusSessionEnd leaves queued: its own setUserProfile is
\* computed from the profile of the render and replaces the one updateTask queued
focusProfile(ts, p, updated, durationMs) ==
  IF p # NoProfile /\ durationMin(durationMs) > 0
  THEN [p EXCEPT !.xp = XpOf(p) + durationMin(durationMs) * FocusXpPerMinute]
  ELSE updateTaskProfile(ts, p, updated)

handleFocusSessionEnd(durationMs) ==
  /\ Dashboard
  /\ activeTaskForFocus # <<>>
  /\ LET updated == focusUpdated(activeTaskForFocus[1], durationMs)
     IN  /\ XpOf(focusProfile(tasks, userProfile, updated, durationMs)) <= MaxXp
         /\ tasks' = replaceTask(tasks, updated)
         /\ userProfile' = focusProfile(tasks, userProfile, updated, durationMs)
         /\ lastOp' = Op("focusEnd", tasks, history, XpOf(userProfile), <<updated>>)
         /\ Step
  /\ activeTaskForFocus' = <<>>
  /\ UNCHANGED <<now, pc, remounts, history, lastActiveDate,
                 rewardState, chat>>
  /\ Persist

\* deleteTask(id), confirmed: setTasks(prev => prev.filter(t => t.id !== id))
deleteTask(i) ==
  /\ Dashboard
  /\ i \in 1..Len(tasks)
  /\ tasks' = SelectSeq(tasks, LAMBDA t : t.id # tasks[i].id)
  /\ lastOp' = Op("deleteTask", tasks, history, XpOf(userProfile), <<>>)
  /\ Step
  /\ UNCHANGED <<now, pc, remounts, history, lastActiveDate, userProfile,
                 activeTaskForFocus, rewardState, chat>>
  /\ Persist

\* bonusXp with strict comparisons
bonusXpStrict(completionRate) ==
  IF completionRate > 80 THEN 100
  ELSE IF completionRate > 50 THEN 50
  ELSE 0

bonusXp(completionRate) ==
  IF completionRate >= 80 THEN 100
  ELSE IF completionRate >= 50 THEN 50
  ELSE 0

\* endDay(), confirmed
performEndDay ==
  LET metrics == runEvaluator(tasks, history)
      newHistory == endDayHistory(tasks, history)
  IN  /\ Dashboard
      /\ Len(history) < MaxHistory
      /\ XpOf(userProfile) + bonusXp(metrics.completionRate) <= MaxXp
      /\ history' = newHistory
      /\ tasks' = resetTasks(tasks, now)
      /\ userProfile' = IF userProfile # NoProfile
                        THEN [userProfile EXCEPT
                                !.xp = XpOf(userProfile) + bonusXp(metrics.completionRate)]
                        ELSE userProfile
      /\ rewardState' = IF metrics.streak > 0
                        THEN [isOpen |-> TRUE, streak |-> metrics.streak]
                        ELSE rewardState
      /\ lastOp' = Op("performEndDay", tasks, history, XpOf(userProfile), <<>>)
      /\ Step
      /\ messages' = Append(messages,
                             ChatMessage("model", "archived",
                                         bonusXp(metrics.completionRate),
                                         Summary(metrics)))
      /\ UNCHANGED <<now, pc, remounts, lastActiveDate,
                     activeTaskForFocus, isTyping, inFlight>>
      /\ Persist

\* RewardModal onClose
CloseReward ==
  /\ pc = "running"
  /\ rewardState.isOpen
  /\ rewardState' = [rewardState EXCEPT !.isOpen = FALSE]
  /\ lastOp' = Other("closeReward")
  /\ Step
  /\ UNCHANGED <<now, pc, remounts, storage, tasks, history, lastActiveDate,
                 userProfile, activeTaskForFocus, chat>>

\* offlineReply without the evaluator's summary
offlineReplyBare(summary) == ChatMessage("model", "offline", 0, <<>>)

\* text: `Offline Mode (${errorMsg}). Evaluator says: ${metrics.summary}`
offlineReply(summary) == ChatMessage("model", "offline", 0, summary)

\* handleSendMessage up to the call of the AI service.  Without an API key the
\* try block throws before the call, and the catch and finally blocks run in
\* the same turn; the key is the one the build defines.
handleSendMessage(inputText, apiKey) ==
  LET newMsg == ChatMessage("user", "input", 0, <<>>)
      summary == Summary(runEvaluator(tasks, history))
  IN  /\ Dashboard
      /\ lastOp' = Op(IF Blank(inputText) THEN "sendBlank"
                      ELSE IF apiKey THEN "send" ELSE "sendNoKey",
                      tasks, history, XpOf(userProfile), <<>>)
      /\ Step
      /\ IF Blank(inputText)
         THEN UNCHANGED chat
         ELSE /\ Len(UserMessages(messages)) < MaxSends
              /\ IF apiKey
                 THEN /\ messages' = Append(messages, newMsg)
                      /\ isTyping' = TRUE
                      /\ inFlight' = Append(inFlight, summary)
                 ELSE /\ messages' = Append(Append(messages, newMsg),
                                            offlineReply(summary))
                      /\ isTyping' = FALSE
                      /\ UNCHANGED inFlight
      /\ UNCHANGED <<now, pc, remounts, storage, tasks, history, lastActiveDate,
                     userProfile, activeTaskForFocus, rewardState>>

\* the call of the AI service settles: the rest of handleSendMessage, with the
\* tasks and the history of the render that sent the message
ChatReply(k, outcome) ==
  /\ pc = "running"
  /\ k \in 1..Len(inFlight)
  /\ messages' = Append(messages,
                        IF outcome = "ok" THEN ChatMessage("model", "ai", 0, <<>>)
                        ELSE offlineReply(inFlight[k]))
  /\ isTyping' = FALSE
  /\ inFlight' = SubSeq(inFlight, 1, k - 1) \o SubSeq(inFlight, k + 1, Len(inFlight))
  /\ lastOp' = Op(IF outcome = "ok" THEN "replyOk" ELSE "replyFailed",
                  tasks, history, XpOf(userProfile), <<>>)
  /\ UNCHANGED <<now, pc, remounts, storage, tasks, history, lastActiveDate,
                 userProfile, activeTaskForFocus, rewardState, steps>>

ChatSettles == \E k \in 1..MaxSends, outcome \in Outcomes : ChatReply(k, outcome)

----------------------------------------------------------------------------

Next ==
  \/ ProcessStart
  \/ ProcessStartThrows
  \/ StrictRemount
  \/ PersistInitial
  \/ Rerender
  \/ ProcessStop
  \/ Tick
  \/ Onboard
  \/ \E title \in Titles \cup {" "}, form \in NewTaskForms :
       addTask(title, form[1], form[2])
  \/ \E i \in 1..MaxTasks, c \in Currents : updateTask(i, c)
  \/ \E i \in 1..MaxTasks : StartSession(i)
  \/ \E durationMs \in Durations : handleFocusSessionEnd(durationMs)
  \/ \E i \in 1..MaxTasks : deleteTask(i)
  \/ performEndDay
  \/ CloseReward
  \/ \E inputText \in InputTexts, apiKey \in BOOLEAN :
       handleSendMessage(inputText, apiKey)
  \/ ChatSettles

Spec == Init /\ [][Next]_vars

\* every call of the AI service settles, with a response or with an error
LiveSpec == Spec /\ WF_vars(ChatSettles)

----------------------------------------------------------------------------
(* Properties *)

IsMount == lastOp'.op \in {"mount", "remount"}

IsEndDay == lastOp'.op = "performEndDay"

AllReset(ts) ==
  \A i \in 1..Len(ts) : ts[i].current = 0 /\ ts[i].sessions = <<>>

AnyProgress(ts) == \E i \in 1..Len(ts) : ts[i].current > 0

LastLog(h) == h[Len(h)]

\* h2 is h1 with exactly one DayLog appended
OneAppended(h1, h2) ==
  /\ Len(h2) = Len(h1) + 1
  /\ SubSeq(h2, 1, Len(h1)) = h1

\* C1: a process start that finds a stored last-active-date d other than today
\* and a stored task with current > 0 appends exactly one DayLog, dated d, with
\* the stored tasks as its snapshot and the evaluator's completionRate of them;
\* afterwards every task is reset, in memory and in storage, and the stored
\* last-active-date is today.
C1_RolloverWithProgress ==
  [][ ( /\ IsMount
        /\ elevate_last_date # NoDate
        /\ elevate_last_date # TodayStr
        /\ AnyProgress(elevate_tasks) )
      => /\ OneAppended(elevate_history, history')
         /\ LastLog(history').date = elevate_last_date
         /\ LastLog(history').tasks = elevate_tasks
         /\ LastLog(history').stats.completionRate = CompletionRate(elevate_tasks)
         /\ elevate_history' = history'
         /\ Len(tasks') = Len(elevate_tasks)
         /\ AllReset(tasks')
         /\ elevate_tasks' = tasks'
         /\ lastActiveDate' = TodayStr
         /\ elevate_last_date' = TodayStr ]_vars

C1_Witness ==
  /\ lastOp.op = "mount"
  /\ lastOp.lastDate # NoDate
  /\ lastOp.lastDate # TodayStr
  /\ AnyProgress(lastOp.tasks)
  /\ Len(history) = Len(lastOp.history) + 1
  /\ LastLog(history).date = lastOp.lastDate

\* C2: the stored last-active-date is written by the rollover check only: no
\* other step (task mutation, profile or settings change, EndDay, persistence)
\* changes it.
C2_LastDateWrittenByRolloverOnly ==
  [][ elevate_last_date' # elevate_last_date => IsMount ]_vars

\* C3: a second run of the mount effect with no date change leaves tasks,
\* history and last-active-date as they were after the first run.
C3_SecondRunIdempotent ==
  [][ lastOp'.op = "remount"
      => /\ tasks' = tasks
         /\ history' = history
         /\ lastActiveDate' = lastActiveDate ]_vars

\* C4: a confirmed EndDay appends exactly one DayLog dated today and resets
\* all tasks, whatever the progress and whatever the stored last-active-date.
C4_EndDayAlwaysArchives ==
  [][ IsEndDay
      => /\ OneAppended(history, history')
         /\ LastLog(history').date = TodayStr
         /\ LastLog(history').tasks = tasks
         /\ Len(tasks') = Len(tasks)
         /\ AllReset(tasks')
         /\ elevate_history' = history'
         /\ elevate_tasks' = tasks' ]_vars

\* an EndDay of a day without progress, on a day after the stored date
C4_Witness ==
  /\ lastOp.op = "performEndDay"
  /\ lastOp.tasks # <<>>
  /\ ~AnyProgress(lastOp.tasks)
  /\ lastOp.lastDate # TodayStr
  /\ Len(history) = Len(lastOp.history) + 1

\* C5: a process start on a new day with no stored progress leaves the history
\* as stored, resets every task all the same, and sets the last-active-date to
\* today.
C5_RolloverWithoutProgress ==
  [][ ( /\ IsMount
        /\ elevate_last_date # NoDate
        /\ elevate_last_date # TodayStr
        /\ ~AnyProgress(elevate_tasks) )
      => /\ history' = elevate_history
         /\ elevate_history' = elevate_history
         /\ Len(tasks') = Len(elevate_tasks)
         /\ AllReset(tasks')
         /\ elevate_tasks' = tasks'
         /\ lastActiveDate' = TodayStr
         /\ elevate_last_date' = TodayStr ]_vars

\* a new day found with a count task that holds a session and no progress
C5_Witness ==
  /\ lastOp.op = "mount"
  /\ lastOp.lastDate # NoDate
  /\ lastOp.lastDate # TodayStr
  /\ ~AnyProgress(lastOp.tasks)
  /\ \E i \in 1..Len(lastOp.tasks) :
       lastOp.tasks[i].type = "count" /\ lastOp.tasks[i].sessions # <<>>
  /\ AllReset(tasks)
  /\ history = lastOp.history

\* C6: a process start with no stored last-active-date sets it to today and
\* neither archives nor resets.
C6_FirstRun ==
  [][ (IsMount /\ elevate_last_date = NoDate)
      => /\ elevate_last_date' = TodayStr
         /\ lastActiveDate' = TodayStr
         /\ history' = elevate_history
         /\ elevate_history' = elevate_history
         /\ tasks' = elevate_tasks
         /\ elevate_tasks' = elevate_tasks ]_vars

C6_Witness ==
  /\ lastOp.op = "mount"
  /\ lastOp.lastDate = NoDate
  /\ AnyProgress(lastOp.tasks)
  /\ tasks = lastOp.tasks
  /\ history = lastOp.history
  /\ elevate_last_date = TodayStr

\* post is pre with every task reset and nothing else of a task changed
ResetFrame(pre, post) ==
  /\ Len(post) = Len(pre)
  /\ \A i \in 1..Len(pre) :
       /\ post[i].id = pre[i].id
       /\ post[i].title = pre[i].title
       /\ post[i].type = pre[i].type
       /\ post[i].target = pre[i].target
       /\ post[i].unit = pre[i].unit
       /\ post[i].current = 0
       /\ post[i].sessions = <<>>

\* C7: the automatic rollover and EndDay keep the number and the order of the
\* tasks and every task's id, title, type, target and unit; current becomes 0
\* and sessions empty, and the history grows by one exactly when a day is
\* archived.
C7_ArchiveResetFrame ==
  [][ /\ IsEndDay => ResetFrame(tasks, tasks') /\ Len(history') = Len(history) + 1
      /\ (IsMount /\ elevate_last_date # NoDate /\ elevate_last_date # TodayStr)
         => /\ ResetFrame(elevate_tasks, tasks')
            /\ Len(history') = Len(elevate_history)
                               + (IF AnyProgress(elevate_tasks) THEN 1 ELSE 0) ]_vars

\* an EndDay of two tasks of different types, one with progress
C7_Witness ==
  /\ lastOp.op = "performEndDay"
  /\ Len(lastOp.tasks) = 2
  /\ lastOp.tasks[1].type # lastOp.tasks[2].type
  /\ AnyProgress(lastOp.tasks)
  /\ Len(tasks) = 2

\* C8: EndDay adds 100 xp when the completionRate of the tasks it archives is
\* at least 80, 50 when it is at least 50, and nothing below; the rate is the
\* one stored in the DayLog it appends.
C8_EndDayBonus ==
  [][ IsEndDay
      => LET rate == LastLog(history').stats.completionRate
         IN  /\ rate = CompletionRate(tasks)
             /\ XpOf(userProfile') - XpOf(userProfile)
                  = (IF rate >= 80 THEN 100 ELSE IF rate >= 50 THEN 50 ELSE 0) ]_vars

\* an EndDay at a completionRate of exactly 50
C8_Witness ==
  /\ lastOp.op = "performEndDay"
  /\ LastLog(history).stats.completionRate = 50
  /\ XpOf(userProfile) = lastOp.xp + 50

\* C9: xp is a natural number that no step decreases, in memory while the
\* process runs and in storage always.
C9_XpMonotonic ==
  [][ /\ XpOf(userProfile') \in Nat
      /\ XpOf(elevate_user') \in Nat
      /\ XpOf(elevate_user') >= XpOf(elevate_user)
      /\ (pc # "off" /\ pc' # "off") => XpOf(userProfile') >= XpOf(userProfile) ]_vars

\* an update that takes a completed task back below its target
C9_Witness ==
  /\ lastOp.op = "updateTask"
  /\ \E i \in 1..Len(lastOp.tasks) :
       /\ lastOp.tasks[i].id = lastOp.task[1].id
       /\ lastOp.tasks[i].current >= lastOp.tasks[i].target
  /\ lastOp.task[1].current < lastOp.task[1].target
  /\ XpOf(userProfile) = lastOp.xp
  /\ lastOp.xp > 0

\* the first task of ts with the id is below its target
StoredBelowTarget(ts, id) ==
  \E i \in 1..Len(ts) :
    /\ ts[i].id = id
    /\ \A j \in 1..(i - 1) : ts[j].id # id
    /\ ts[i].current < ts[i].target

\* C10: updateTask puts the task it is given in the place of the task with its
\* id and leaves every other task; an id that is not in the list changes
\* nothing.  Called by a progress update it adds 50 xp exactly when the stored
\* task was below its target and the given one is at or above it.
C10_UpdateTask ==
  [][ /\ lastOp'.op \in {"updateTask", "focusEnd"}
         => LET u == lastOp'.task[1]
            IN  /\ Len(tasks') = Len(tasks)
                /\ \A i \in 1..Len(tasks) :
                     tasks'[i] = IF tasks[i].id = u.id THEN u ELSE tasks[i]
      /\ lastOp'.op = "updateTask"
         => LET u == lastOp'.task[1]
            IN  XpOf(userProfile') - XpOf(userProfile)
                  = (IF StoredBelowTarget(tasks, u.id) /\ u.current >= u.target
                     THEN 50 ELSE 0) ]_vars

\* a progress update that completes one of two tasks
C10_Witness ==
  /\ lastOp.op = "updateTask"
  /\ Len(lastOp.tasks) = 2
  /\ lastOp.tasks[1].id # lastOp.tasks[2].id
  /\ StoredBelowTarget(lastOp.tasks, lastOp.task[1].id)
  /\ lastOp.task[1].current >= lastOp.task[1].target
  /\ XpOf(userProfile) = lastOp.xp + 50

\* an update handed a task whose id is no longer in the list
C10_UnknownIdReached ==
  /\ lastOp.op = "focusEnd"
  /\ lastOp.tasks # <<>>
  /\ \A i \in 1..Len(lastOp.tasks) : lastOp.tasks[i].id # lastOp.task[1].id
  /\ tasks = lastOp.tasks

\* the session record a focus session ended with: the last one of the task given
EndedSession(u) == u.sessions[Len(u.sessions)]

\* C11: ending a focus session of durationMs on a task appends exactly one
\* session record with that durationMs to the sessions the task has, adds the
\* rounded minutes to the current of a duration task and nothing to the current
\* of a count task, and adds 2 xp per minute, nothing for zero minutes.
C11_RecordFocusSession ==
  [][ lastOp'.op = "focusEnd"
      => LET u == lastOp'.task[1]
             d == EndedSession(u).durationMs
             k == FindIndex(tasks, u.id)
         IN  k # 0
             => /\ Len(tasks'[k].sessions) = Len(tasks[k].sessions) + 1
                /\ SubSeq(tasks'[k].sessions, 1, Len(tasks[k].sessions))
                     = tasks[k].sessions
                /\ EndedSession(tasks'[k]).durationMs = d
                /\ tasks'[k].current
                     = tasks[k].current
                       + (IF tasks[k].type = "duration" THEN durationMin(d) ELSE 0)
                /\ XpOf(userProfile') - XpOf(userProfile)
                     = durationMin(d) * FocusXpPerMinute ]_vars

\* C12: addTask with a blank title changes neither the tasks nor the xp; with
\* any other title it appends exactly one task, with current 0 and no sessions,
\* leaves the tasks there were, and adds exactly 10 xp.
C12_AddTask ==
  [][ /\ lastOp'.op = "addTaskBlank"
         => /\ tasks' = tasks
            /\ userProfile' = userProfile
      /\ lastOp'.op = "addTask"
         => /\ Len(tasks') = Len(tasks) + 1
            /\ SubSeq(tasks', 1, Len(tasks)) = tasks
            /\ ~Blank(tasks'[Len(tasks')].title)
            /\ tasks'[Len(tasks')].current = 0
            /\ tasks'[Len(tasks')].sessions = <<>>
            /\ XpOf(userProfile') = XpOf(userProfile) + 10 ]_vars

\* a second task added to a list holding a task with progress
C12_Witness ==
  /\ lastOp.op = "addTask"
  /\ Len(lastOp.tasks) = 1
  /\ lastOp.tasks[1].current > 0
  /\ Len(tasks) = 2
  /\ tasks[1] = lastOp.tasks[1]
  /\ tasks[2].current = 0
  /\ XpOf(userProfile) = lastOp.xp + 10

\* a blank title was rejected
C12_BlankReached ==
  /\ lastOp.op = "addTaskBlank"
  /\ tasks = lastOp.tasks
  /\ tasks # <<>>

\* C13: while the process runs no step takes a DayLog out of the history in
\* memory or changes the date, the snapshot or the stats of one that is there.
C13_HistoryAppendOnly ==
  [][ (pc # "off" /\ pc' # "off")
      => /\ Len(history') >= Len(history)
         /\ SubSeq(history', 1, Len(history)) = history ]_vars

\* the focus session that ends was started on the task as it is now
FreshSnapshot(k) == k # 0 /\ activeTaskForFocus = <<tasks[k]>>

\* C16: a focus session whose minutes take a duration task from below its
\* target to at or above it adds 50 xp for the crossing and 2 xp per minute.
C16_BothAwardsKept ==
  [][ lastOp'.op = "focusEnd"
      => LET u == lastOp'.task[1]
             d == EndedSession(u).durationMs
             k == FindIndex(tasks, u.id)
         IN  ( /\ FreshSnapshot(k)
               /\ u.type = "duration"
               /\ tasks[k].current < tasks[k].target
               /\ u.current >= u.target )
             => XpOf(userProfile')
                  = XpOf(userProfile) + 50 + durationMin(d) * FocusXpPerMinute ]_vars

\* C17: a focus session ended on a count task leaves the xp as it was.
C17_NoFocusXpForCountTask ==
  [][ lastOp'.op = "focusEnd"
      => LET u == lastOp'.task[1]
             k == FindIndex(tasks, u.id)
         IN  (FreshSnapshot(k) /\ u.type = "count")
             => XpOf(userProfile') = XpOf(userProfile) ]_vars

\* C18: every step that appends a DayLog, the rollover of a process start as
\* well as EndDay, adds to the xp of the profile the bonus of the completionRate
\* of that DayLog: 100 from 80 on, 50 from 50 on, else 0.
C18_EveryArchiveAwardsBonus ==
  [][ /\ (IsMount /\ elevate_user # NoProfile
                  /\ Len(history') = Len(elevate_history) + 1)
         => XpOf(userProfile')
              = XpOf(elevate_user) + bonusXp(LastLog(history').stats.completionRate)
      /\ (IsEndDay /\ Len(history') = Len(history) + 1)
         => XpOf(userProfile')
              = XpOf(userProfile) + bonusXp(LastLog(history').stats.completionRate)
    ]_vars

\* C19: EndDay opens the reward exactly when the streak over the history with
\* the DayLog just archived is positive, and the reward shows that streak.
C19_RewardOnResultingStreak ==
  [][ IsEndDay
      => IF Streak(history') > 0
         THEN rewardState' = [isOpen |-> TRUE, streak |-> Streak(history')]
         ELSE rewardState' = rewardState ]_vars

\* C20: the tasks in memory have pairwise distinct ids.
C20_UniqueIds ==
  \A i, j \in 1..Len(tasks) : tasks[i].id = tasks[j].id => i = j

\* C14: every process start completes, whatever text the stored keys hold: the
\* mount effect runs to its end and leaves the last-active-date set.
C14_MalformedNeverFatal ==
  [][ (pc = "off" /\ pc' # "off")
      => (pc' = "mounted" /\ lastActiveDate' # NoDate) ]_vars

\* a step that ends a send: the call settled, or the send had no API key
IsReply == lastOp'.op \in {"replyOk", "replyFailed", "sendNoKey"}

IsDegraded == lastOp'.op \in {"replyFailed", "sendNoKey"}

\* C15: a send of a non-blank input puts the user's message in the transcript,
\* and every such send comes to an end: the step that ends it appends exactly
\* one reply after the messages there are and clears the typing indicator.
\* When the call failed or the key is missing the reply is the offline one
\* quoting the evaluator's summary of the sender's tasks and history, and the
\* tasks, the history, the profile, the last-active-date and the storage stay.
C15_DegradedChat ==
  /\ [][ /\ lastOp'.op \in {"send", "sendNoKey"}
            => /\ Len(messages') > Len(messages)
               /\ SubSeq(messages', 1, Len(messages)) = messages
               /\ messages'[Len(messages) + 1].role = "user"
         /\ lastOp'.op = "send"
            => /\ Len(messages') = Len(messages) + 1
               /\ Len(inFlight') = Len(inFlight) + 1
         /\ lastOp'.op \in {"replyOk", "replyFailed"}
            => /\ Len(messages') = Len(messages) + 1
               /\ SubSeq(messages', 1, Len(messages)) = messages
               /\ Len(inFlight') = Len(inFlight) - 1
               /\ \E i \in 1..Len(messages) : messages[i].role = "user"
         /\ lastOp'.op = "sendNoKey"
            => Len(messages') = Len(messages) + 2
         /\ IsReply
            => /\ messages'[Len(messages')].role = "model"
               /\ ~isTyping'
         /\ lastOp'.op = "replyFailed"
            => \E k \in 1..Len(inFlight) :
                 /\ messages'[Len(messages')].kind = "offline"
                 /\ messages'[Len(messages')].summary = inFlight[k]
         /\ lastOp'.op \in {"send", "sendNoKey"}
            => LET said == IF lastOp'.op = "send"
                           THEN inFlight'[Len(inFlight')]
                           ELSE messages'[Len(messages')].summary
               IN  said = <<CompletionRate(tasks), Streak(history)>>
         /\ lastOp'.op = "sendNoKey"
            => messages'[Len(messages')].kind = "offline"
         /\ IsDegraded
            => /\ tasks' = tasks
               /\ history' = history
               /\ userProfile' = userProfile
               /\ lastActiveDate' = lastActiveDate
               /\ storage' = storage ]_vars
  /\ (inFlight # <<>>) ~> (inFlight = <<>>)
  /\ isTyping ~> ~isTyping

\* a call that failed was answered offline with a summary of tasks in progress
C15_Witness ==
  /\ lastOp.op = "replyFailed"
  /\ ~isTyping
  /\ inFlight = <<>>
  /\ Len(messages) >= 2
  /\ messages[Len(messages) - 1].role = "user"
  /\ messages[Len(messages)].kind = "offline"
  /\ messages[Len(messages)].summary[1] > 0

\* C21: every task in memory has a target that is a positive integer.
C21_PositiveTarget ==
  \A i \in 1..Len(tasks) : tasks[i].target \in Nat \ {0}

\* the durationMs of the sessions of a task
SessionDurations(t) == [k \in 1..Len(t.sessions) |-> t.sessions[k].durationMs]

\* the sum of durationMs over all sessions of the tasks ts
FocusTimeMs(ts) == SeqSum([i \in 1..Len(ts) |-> SeqSum(SessionDurations(ts[i]))])

\* C22: the totalFocusTimeMs of every DayLog of the history is the sum of the
\* durationMs of the sessions in the task snapshot of that DayLog.
C22_TotalFocusTime ==
  \A i \in 1..Len(history) :
    history[i].stats.totalFocusTimeMs = FocusTimeMs(history[i].tasks)

\* C23: from the mount effect on, the stored task list and the stored history
\* hold no fewer entries than the tasks and the history the mount effect loaded
\* and the handlers made of them.
C23_StorageNotClobbered ==
  pc \in {"mounted", "committed", "running"}
    => /\ Len(elevate_tasks) >= Len(tasks)
       /\ Len(elevate_history) >= Len(history)

\* C24: a focus session that ends on a task changed since the session started
\* adds its minutes to the current the task has now (nothing for a count task)
\* and its record to the sessions the task has now.
C24_FocusEndOnLiveTask ==
  [][ lastOp'.op = "focusEnd"
      => LET u == lastOp'.task[1]
             k == FindIndex(tasks, u.id)
         IN  (k # 0 /\ activeTaskForFocus # <<tasks[k]>>)
             => /\ tasks'[k].current
                     = tasks[k].current
                       + (IF tasks[k].type = "duration"
                          THEN durationMin(EndedSession(u).durationMs) ELSE 0)
                /\ tasks'[k].sessions = Append(tasks[k].sessions, EndedSession(u))
    ]_vars

\* the progress of task t: its current and its sessions
Progress(t) == <<t.current, t.sessions>>

NoProgress(t) == t.current = 0 /\ t.sessions = <<>>

\* C25: progress gets into a DayLog once.  The rollover appends a DayLog only
\* for stored progress, every archive leaves the tasks without progress in
\* memory and in storage, and afterwards a task has progress only as recorded
\* anew: by a progress update, or by a focus session that adds to the progress
\* the task has then.
C25_NoProgressArchivedTwice ==
  [][ /\ (IsMount /\ Len(history') > Len(elevate_history))
         => AnyProgress(elevate_tasks)
      /\ (IsMount /\ AllReset(elevate_tasks))
         => history' = elevate_history
      /\ (IsEndDay \/ (IsMount /\ Len(history') > Len(elevate_history)))
         => /\ \A i \in 1..Len(tasks') : NoProgress(tasks'[i])
            /\ \A i \in 1..Len(elevate_tasks') : NoProgress(elevate_tasks'[i])
      /\ (pc = "running" /\ pc' = "running" /\ lastOp'.op # "updateTask")
         => \A i \in 1..Len(tasks') :
              \/ NoProgress(tasks'[i])
              \/ \E j \in 1..Len(tasks) : /\ tasks[j].id = tasks'[i].id
                                          /\ Progress(tasks[j]) = Progress(tasks'[i])
              \/ /\ lastOp'.op = "focusEnd"
                 /\ \E j \in 1..Len(tasks) :
                      /\ tasks[j].id = tasks'[i].id
                      /\ tasks'[i].sessions
                           = Append(tasks[j].sessions, EndedSession(lastOp'.task[1]))
                      /\ tasks'[i].current
                           = tasks[j].current
                             + (IF tasks[j].type = "duration"
                                THEN durationMin(EndedSession(lastOp'.task[1]).durationMs)
                                ELSE 0) ]_vars

\* the progress EndDay archived and reset is in the task again after a focus
\* session that was open across the EndDay
C25_ArchivedProgressBack ==
  /\ lastOp.op = "focusEnd"
  /\ Len(history) = 1
  /\ Len(tasks) = 1
  /\ Len(history[1].tasks) = 1
  /\ history[1].tasks[1].id = tasks[1].id
  /\ history[1].tasks[1].current > 0
  /\ tasks[1].type = "count"
  /\ tasks[1].current = history[1].tasks[1].current

====
